---------------------------- MODULE Spec2Model ----------------------------
(***************************************************************************)
(* pylarexx, datalogger/DataListener.py: the two stateful listeners.       *)
(*                                                                         *)
(*   MQTTListener           publishes readings to an MQTT broker under the *)
(*                          "home-assistant" or the "homie" convention.    *)
(*   RecentValuesListener   keeps the last reading of every sensor and     *)
(*                          serves them on a TCP socket, one handler       *)
(*                          thread per connection.                         *)
(*                                                                         *)
(* SpecMQTT is the state machine of one MQTTListener object, SpecRV the    *)
(* one of a RecentValuesListener object with its handler threads.          *)
(***************************************************************************)
EXTENDS Integers, Sequences, FiniteSets

VARIABLES
    \* ---- MQTTListener
    payload_format,   \* params["payload_format"] ("absent": key not configured)
    dataHasSensor,    \* whether the readings handed in carry a "sensor" key
    mqttReady,        \* self.ready
    mqttValues,       \* self.values: dict displayid -> data, in insertion order
    published,        \* every mqttClient.publish call issued so far, in order
    mqttDelivered,    \* the onNewData calls made so far: <<sensor index, data>>
    mqttConnects,     \* number of mqttClient.connect calls made so far
    mqttRaised,       \* the last onNewData call let an exception escape
    mqttFailures,     \* number of publish calls that raised so far
    mqttConnected,    \* mqttClient.connect() returned without raising
    mqttAcked,        \* the broker's acknowledgment arrived: on_connect ran
    \* ---- RecentValuesListener
    rvValues,         \* self.values: dict sensor.id -> data
    rvSensors,        \* self.sensors: dict sensor.id -> sensor
    rvReady,          \* self.ready
    rvServer,         \* self.server: "None" or "server"
    rvServing,        \* a serve_forever thread runs on the bound socket
    rvBound,          \* a server created by this listener holds a port
    rvPort,           \* params["port"]: 0 lets the system pick a free port
    rvBindAttempts,   \* number of openListeningPort calls made so far
    rvBinds,          \* number of those that created the server (bound the socket)
    rvRaised,         \* the last onNewData call let an exception escape
    rvPc,             \* position of the delivery thread inside onNewData:
                      \* "idle", "sensors", "bind", "start" or "ready"
    rvArg,            \* <<sensor index, data>> of the onNewData call under way
    rvCalls,          \* number of onNewData calls started so far
    rvLast,           \* per sensor id, the reading most recently stored
    rvPrev,           \* the cache as the previous call left it, kept when the
                      \* call under way repeats that call's arguments
    handlers,         \* per connection, the state of its request handler thread
    \* ---- FileOutListener
    fileStatus,       \* self.status
    fileWritten,      \* the lines written to self.fd so far, in order
    fileRaised,       \* the last onNewData call let an exception escape
    fileCalls,        \* number of onNewData calls made so far
    fileLast          \* what the last call (or __init__) did

mqttVars == <<payload_format, dataHasSensor, mqttReady, mqttValues, published,
              mqttDelivered, mqttConnects, mqttRaised, mqttFailures,
              mqttConnected, mqttAcked>>
rvVars == <<rvValues, rvSensors, rvReady, rvServer, rvServing, rvBound, rvPort,
            rvBindAttempts,
            rvBinds, rvRaised, rvPc, rvArg, rvCalls, rvLast, rvPrev, handlers>>
fileVars == <<fileStatus, fileWritten, fileRaised, fileCalls, fileLast>>
vars == <<mqttVars, rvVars, fileVars>>

----------------------------------------------------------------------------
(* Bounds of the model *)

MaxSensors == 2
MaxDeliveries == 3
MaxFailures == 2
MaxConnections == 2
MaxFileCalls == 4

----------------------------------------------------------------------------
(* Sensors and readings handed in by the Logger *)

\* Python's None (data["signal"] when the device reports no signal quality).
None == -1

\* str.lower() on the sensor types that occur.
Lower(t) ==
    CASE t = "Relative Humidity" -> "relative humidity"
      [] t = "Temperature" -> "temperature"
      [] OTHER -> t

\* The Sensor object with internal id i, as the listeners read it.
SensorOf(i) ==
    [ id |-> i,
      displayid |-> 10 + i,
      name |-> IF i % 2 = 1 THEN "Garden" ELSE "Office",
      type |-> IF i % 2 = 1 THEN "Relative Humidity" ELSE "Temperature",
      unit |-> IF i % 2 = 1 THEN "%RH" ELSE "C",
      manufacturerType |-> "TSN-TH70E" ]

SensorIds == 1 .. MaxSensors

\* The data dicts the Logger hands to onNewData for sensor i at time ts: one
\* without and one with a signal quality. sensor = 0 stands for a dict that
\* has no "sensor" key.
Readings(i, ts, withSensor) ==
    { [ rawvalue |-> 230, timestamp |-> ts, signal |-> None,
        sensor |-> IF withSensor THEN i ELSE 0 ],
      [ rawvalue |-> 231, timestamp |-> ts, signal |-> 7,
        sensor |-> IF withSensor THEN i ELSE 0 ] }

----------------------------------------------------------------------------
(* Python dict, as a sequence of key/value pairs in insertion order *)

DictHas(d, k) == \E i \in 1 .. Len(d) : d[i].k = k

DictGet(d, k) == d[CHOOSE i \in 1 .. Len(d) : d[i].k = k].v

\* d[k] = v: a present key keeps its place, a new key goes last.
DictSet(d, k, v) ==
    IF DictHas(d, k)
    THEN [i \in 1 .. Len(d) |-> IF d[i].k = k THEN [k |-> k, v |-> v] ELSE d[i]]
    ELSE Append(d, [k |-> k, v |-> v])

----------------------------------------------------------------------------
(* MQTTListener *)

\* "%.2f" % sensor.rawToCooked(raw): rawToCooked belongs to the Sensor.
Fmt2(sensorId, raw) == [fmt |-> "%.2f", cooked |-> <<sensorId, raw>>]

\* One mqttClient.publish(topic, payload, qos, retain) call.
Publish(topic, payload, retain) ==
    [topic |-> topic, payload |-> payload, retain |-> retain]

\* params.get("payload_format", "home-assistant")
PayloadFormatHomieDefault(configured) ==
    IF configured = "absent" THEN "homie" ELSE configured
PayloadFormat(configured) ==
    IF configured = "absent" THEN "home-assistant" ELSE configured

\* The "if self.ready:" guard of both send methods.
MayPublishAlways(ready) == TRUE
MayPublish(ready) == ready

\* try: self.values[sensor.displayid] except: newSensor = True
FirstSensorOnly(values, sensor) == Len(values) = 0
NewSensor(values, sensor) == ~DictHas(values, sensor.displayid)

\* -- home-assistant

HATopic(sensor, leaf) ==
    [conv |-> "home-assistant", node |-> sensor.displayid, prop |-> "", leaf |-> leaf]

HAUnit(sensor) == IF sensor.unit = "%RH" THEN "%" ELSE sensor.unit

HAStype(sensor) ==
    IF Lower(sensor.type) = "relative humidity" THEN "humidity"
    ELSE Lower(sensor.type)

HAConfigPayload(sensor) ==
    [ name |-> <<sensor.name, sensor.type>>,
      device_class |-> HAStype(sensor),
      state_topic |-> HATopic(sensor, "state"),
      unit_of_measurement |-> HAUnit(sensor),
      value_template |-> [value_json |-> HAStype(sensor)] ]

HAStatePayload(data, sensor) ==
    [key |-> Lower(sensor.type), value |-> Fmt2(sensor.id, data.rawvalue)]

\* The publish calls of the try block, in order, when none of them raises.
HACallsStateFirst(values, data, sensor) ==
    <<Publish(HATopic(sensor, "state"), HAStatePayload(data, sensor), FALSE)>>
    \o (IF NewSensor(values, sensor)
        THEN <<Publish(HATopic(sensor, "config"), HAConfigPayload(sensor), TRUE)>>
        ELSE <<>>)
HACalls(values, data, sensor) ==
    (IF NewSensor(values, sensor)
     THEN <<Publish(HATopic(sensor, "config"), HAConfigPayload(sensor), TRUE)>>
     ELSE <<>>)
    \o <<Publish(HATopic(sensor, "state"), HAStatePayload(data, sensor), FALSE)>>

\* -- homie

HomieDeviceTopic(leaf) ==
    [conv |-> "homie", node |-> 0, prop |-> "", leaf |-> leaf]

HomieNodeTopic(sid, leaf) ==
    [conv |-> "homie", node |-> sid, prop |-> "", leaf |-> leaf]

HomiePropTopic(sid, prop, leaf) ==
    [conv |-> "homie", node |-> sid, prop |-> prop, leaf |-> leaf]

\* self.values[sensor.displayid] = data
HomieRecord(values, data, sensor) == DictSet(values, sensor.displayid, data)

\* nodes: "sensor_%d" % sid for every key of self.values, joined by ",".
HomieNodesStale(values) == [i \in 1 .. Len(values) - 1 |-> values[i].k]
HomieNodes(values) == [i \in 1 .. Len(values) |-> values[i].k]

HomieDeviceCalls(values) ==
    << Publish(HomieDeviceTopic("$homie"), "3.0", TRUE),
       Publish(HomieDeviceTopic("$name"), "mqtt_device_name", TRUE),
       Publish(HomieDeviceTopic("$nodes"), HomieNodes(values), TRUE),
       Publish(HomieDeviceTopic("$state"), "ready", TRUE) >>

\* The seven messages of one sensor: sid is the topic's id, s the Sensor object
\* whose attributes are sent, raw the raw value that is converted.
HomieSensorCalls(sid, s, raw) ==
    << Publish(HomieNodeTopic(sid, "$type"), s.manufacturerType, FALSE),
       Publish(HomieNodeTopic(sid, "$name"), s.name, FALSE),
       Publish(HomieNodeTopic(sid, "$properties"), Lower(s.type), FALSE),
       Publish(HomiePropTopic(sid, Lower(s.type), "$name"), <<s.name, s.type>>, FALSE),
       Publish(HomiePropTopic(sid, Lower(s.type), "$datatype"), "float", FALSE),
       Publish(HomiePropTopic(sid, Lower(s.type), "$unit"), s.unit, FALSE),
       Publish(HomiePropTopic(sid, Lower(s.type), "value"), Fmt2(s.id, raw), FALSE) >>

\* for sid, value in self.values.items(): ... value["sensor"] ...
\* The loop ends at the first value that has no "sensor" key (KeyError).
RECURSIVE HomieLoopCalls(_, _)
HomieLoopCalls(values, i) ==
    IF i > Len(values) \/ values[i].v.sensor = 0 THEN <<>>
    ELSE HomieSensorCalls(values[i].k, SensorOf(values[i].v.sensor),
                          values[i].v.rawvalue)
         \o HomieLoopCalls(values, i + 1)

\* The publish calls of the try block, in order, when none of them raises;
\* values is self.values before the call.
HomieCallsRepublishAll(values, data, sensor) ==
    IF NewSensor(values, sensor)
    THEN HomieDeviceCalls(HomieRecord(values, data, sensor))
         \o HomieLoopCalls(HomieRecord(values, data, sensor), 1)
    ELSE HomieLoopCalls(HomieRecord(values, data, sensor), 1)
HomieCalls(values, data, sensor) ==
    IF NewSensor(values, sensor)
    THEN HomieDeviceCalls(HomieRecord(values, data, sensor))
         \o HomieLoopCalls(HomieRecord(values, data, sensor), 1)
    ELSE HomieSensorCalls(sensor.displayid, sensor, data.rawvalue)

\* -- both

\* The calls actually issued when call number failAt raises (0: none does):
\* the ones before it return, it is issued and raises, the rest is skipped.
Issued(calls, failAt) ==
    [ i \in 1 .. (IF failAt \in 1 .. Len(calls) THEN failAt ELSE Len(calls)) |->
        [ topic |-> calls[i].topic, payload |-> calls[i].payload,
          retain |-> calls[i].retain, ok |-> (i # failAt) ] ]

\* except Exception as e: logging.error(...): nothing escapes the try block.
EscapesAlways(raisedInTry) == raisedInTry
Escapes(raisedInTry) == FALSE

sendHomeAssistantMessage(values, ready, data, sensor, failAt) ==
    LET calls == IF MayPublish(ready) THEN HACalls(values, data, sensor) ELSE <<>>
    IN  [ values |-> values,
          ready |-> ready,
          connects |-> 0,
          calls |-> Issued(calls, failAt),
          raised |-> Escapes(failAt \in 1 .. Len(calls)) ]

sendHomieMessages(values, ready, data, sensor, failAt) ==
    LET calls == IF MayPublish(ready) THEN HomieCalls(values, data, sensor) ELSE <<>>
    IN  [ values |-> HomieRecord(values, data, sensor),
          ready |-> ready,
          connects |-> 0,
          calls |-> Issued(calls, failAt),
          raised |-> Escapes(failAt \in 1 .. Len(calls)) ]

\* MQTTListener.onNewData's effect: the new self.values and self.ready, the
\* number of connect() calls made, the publish calls issued, and whether an
\* exception escapes.
onNewDataEffect(fmt, values, ready, data, sensor, failAt) ==
    IF PayloadFormat(fmt) = "homie"
    THEN sendHomieMessages(values, ready, data, sensor, failAt)
    ELSE IF PayloadFormat(fmt) = "home-assistant"
    THEN sendHomeAssistantMessage(values, ready, data, sensor, failAt)
    ELSE [values |-> values, ready |-> ready, connects |-> 0, calls |-> <<>>,
          raised |-> FALSE]

\* The largest number of publish calls one onNewData call can issue.
MaxCalls == 4 + 7 * MaxSensors

\* Every issued call is logged with the number of the onNewData call that
\* issued it and the displayid of the sensor that call was for.
Logged(calls, n, sensor) ==
    [ i \in 1 .. Len(calls) |->
        [ topic |-> calls[i].topic, payload |-> calls[i].payload,
          retain |-> calls[i].retain, ok |-> calls[i].ok,
          n |-> n, by |-> sensor.displayid ] ]

MQTTonNewData ==
    /\ Len(mqttDelivered) < MaxDeliveries
    /\ \E i \in SensorIds :
       \E data \in Readings(i, Len(mqttDelivered) + 1, dataHasSensor) :
       \E failAt \in 0 .. MaxCalls :
         LET noFail == onNewDataEffect(payload_format, mqttValues, mqttReady,
                                       data, SensorOf(i), 0)
             eff == onNewDataEffect(payload_format, mqttValues, mqttReady,
                                    data, SensorOf(i), failAt)
         IN  /\ failAt <= Len(noFail.calls)
             /\ failAt > 0 => mqttFailures < MaxFailures
             /\ mqttValues' = eff.values
             /\ published' = published
                    \o Logged(eff.calls, Len(mqttDelivered) + 1, SensorOf(i))
             /\ mqttReady' = eff.ready
             /\ mqttConnects' = mqttConnects + eff.connects
             /\ mqttRaised' = eff.raised
             /\ mqttFailures' = mqttFailures + (IF failAt > 0 THEN 1 ELSE 0)
             /\ mqttDelivered' = Append(mqttDelivered, <<i, data>>)
    /\ UNCHANGED <<payload_format, dataHasSensor, mqttConnected, mqttAcked, rvVars, fileVars>>

\* connect(): self.ready after mqttClient.connect() and loop_start() returned
\* (TRUE) or one of them raised (FALSE).
ReadyLeftToCallback(returned) == FALSE
ConnectReady(returned) == returned

\* on_connect: the callback the client's loop thread runs when the broker's
\* acknowledgment arrives. It logs the result code.
MQTTon_connect ==
    /\ mqttConnected
    /\ ~mqttAcked
    /\ mqttAcked' = TRUE
    /\ UNCHANGED <<payload_format, dataHasSensor, mqttReady, mqttValues, published,
                   mqttDelivered, mqttConnects, mqttRaised, mqttFailures,
                   mqttConnected, rvVars, fileVars>>

----------------------------------------------------------------------------
(* RecentValuesListener *)

\* str(data["signal"])
Str(n) == CASE n = 7 -> "7" [] n = 8 -> "8" [] OTHER -> "n"

\* One line of the response: "%d,%f %s,%d,%s,%s,%s,%s\n" % (...).
Line(sensor, data) ==
    [ displayid |-> sensor.displayid,
      cooked |-> [fmt |-> "%f", cooked |-> <<sensor.id, data.rawvalue>>],
      unit |-> sensor.unit,
      timestamp |-> data.timestamp,
      signaltext |-> IF data.signal = None THEN "-" ELSE Str(data.signal),
      type |-> sensor.type,
      name |-> sensor.name,
      id |-> sensor.id ]

\* self.values[sensor.id] = data
StoreFront(values, id, data) ==
    IF DictHas(values, id)
    THEN <<[k |-> id, v |-> data]>> \o SelectSeq(values, LAMBDA e : e.k # id)
    ELSE Append(values, [k |-> id, v |-> data])
KeepFirst(values, id, data) == IF DictHas(values, id) THEN values ELSE DictSet(values, id, data)
StoreValue(values, id, data) == DictSet(values, id, data)

\* if not self.ready:
NeedsBind(ready) == ~ready

\* A handler thread that has not been started.
NoHandler ==
    [st |-> "none", used |-> 0, pos |-> 0, sid |-> 0, data |-> 0, response |-> <<>>]

Rendering(h) == handlers[h].st \in {"iter", "item"}

\* The caller may hand the arguments of the previous call in again.
Again(i) == IF rvArg[1] = i THEN {rvArg[2]} ELSE {}

NotRepeated == [same |-> FALSE, values |-> <<>>, sensors |-> <<>>]

\* onNewData, first statement: self.values[sensor.id] = data
RVStoreValue ==
    /\ rvPc = "idle"
    /\ rvCalls < MaxDeliveries
    /\ \E i \in SensorIds : \E data \in Readings(i, rvCalls + 1, FALSE) \cup Again(i) :
         /\ rvValues' = StoreValue(rvValues, SensorOf(i).id, data)
         /\ rvLast' = [rvLast EXCEPT ![i] = data]
         /\ rvArg' = <<i, data>>
         /\ rvPrev' = IF <<i, data>> = rvArg
                       THEN [same |-> TRUE, values |-> rvValues, sensors |-> rvSensors]
                       ELSE NotRepeated
    /\ rvCalls' = rvCalls + 1
    /\ rvRaised' = FALSE
    /\ rvPc' = "sensors"
    /\ UNCHANGED <<rvSensors, rvReady, rvServer, rvServing, rvBound, rvBindAttempts,
                   rvBinds, handlers, rvPort,
                   mqttVars, fileVars>>

\* onNewData, second statement: self.sensors[sensor.id] = sensor
RVStoreSensor ==
    /\ rvPc = "sensors"
    /\ rvSensors' = DictSet(rvSensors, SensorOf(rvArg[1]).id, rvArg[1])
    /\ rvPc' = "bind"
    /\ UNCHANGED <<rvValues, rvReady, rvServer, rvServing, rvBound, rvBindAttempts, rvBinds,
                   rvRaised, rvArg, rvCalls, rvLast, rvPrev, handlers, rvPort,
                   mqttVars, fileVars>>

\* onNewData, "if not self.ready:" found false: the call returns.
RVReturn ==
    /\ rvPc = "bind"
    /\ ~NeedsBind(rvReady)
    /\ rvPc' = "idle"
    /\ UNCHANGED <<rvValues, rvSensors, rvReady, rvServer, rvServing, rvBound, rvBindAttempts,
                   rvBinds, rvRaised, rvArg, rvCalls, rvLast, rvPrev, handlers, rvPort,
                   mqttVars, fileVars>>

\* int(port) of line 230 can be bound: port 0 asks the system for a free
\* port; a given port is free only if no server of this listener holds it.
DefaultPort == 4711
CanBind(port, bound) == port = 0 \/ ~bound

\* onNewData, openListeningPort, line 229: ThreadedTCPServer(...) binds the
\* socket and is stored in self.server, replacing (and thereby closing) a
\* server left there by an earlier call.
RVBindOk ==
    /\ rvPc = "bind"
    /\ NeedsBind(rvReady)
    /\ CanBind(rvPort, rvBound)
    /\ rvServer' = "server"
    /\ rvBound' = TRUE
    /\ rvBindAttempts' = rvBindAttempts + 1
    /\ rvBinds' = rvBinds + 1
    /\ rvPc' = "start"
    /\ UNCHANGED <<rvValues, rvSensors, rvReady, rvServing, rvRaised, rvArg, rvCalls,
                   rvLast, rvPrev, handlers, rvPort,
                   mqttVars, fileVars>>

\* onNewData, openListeningPort, line 229: ThreadedTCPServer(...) raises (the
\* port is held by this listener's own server or by someone else); the
\* exception is logged inside openListeningPort.
RVBindFail ==
    /\ rvPc = "bind"
    /\ NeedsBind(rvReady)
    /\ rvBindAttempts' = rvBindAttempts + 1
    /\ rvRaised' = FALSE
    /\ rvPc' = "idle"
    /\ UNCHANGED <<rvValues, rvSensors, rvReady, rvServer, rvServing, rvBound, rvBinds,
                   rvArg, rvCalls, rvLast, rvPrev, handlers, rvPort,
                   mqttVars, fileVars>>

\* openListeningPort, line 235: server_thread.start() returns; the server
\* accepts connections from here on.
RVStartOk ==
    /\ rvPc = "start"
    /\ rvServing' = TRUE
    /\ rvPc' = "ready"
    /\ UNCHANGED <<rvValues, rvSensors, rvReady, rvServer, rvBound, rvBindAttempts,
                   rvBinds, rvRaised, rvArg, rvCalls, rvLast, rvPrev, handlers,
                   rvPort,
                   mqttVars, fileVars>>

\* openListeningPort, line 235: server_thread.start() raises; the exception
\* is logged, self.server keeps the bound server, which nothing serves or
\* closes.
RVStartFail ==
    /\ rvPc = "start"
    /\ rvRaised' = FALSE
    /\ rvPc' = "idle"
    /\ UNCHANGED <<rvValues, rvSensors, rvReady, rvServer, rvServing, rvBound,
                   rvBindAttempts, rvBinds, rvArg, rvCalls, rvLast, rvPrev, handlers,
                   rvPort,
                   mqttVars, fileVars>>

\* openListeningPort, line 236: self.ready = True, and onNewData returns.
RVSetReady ==
    /\ rvPc = "ready"
    /\ rvReady' = TRUE
    /\ rvPc' = "idle"
    /\ UNCHANGED <<rvValues, rvSensors, rvServer, rvServing, rvBound, rvBindAttempts,
                   rvBinds, rvRaised, rvArg, rvCalls, rvLast, rvPrev, handlers,
                   rvPort,
                   mqttVars, fileVars>>

\* A client connects: the handler's setup() starts iterating values.items().
HandlerSetup(h) ==
    /\ rvServing
    /\ handlers[h].st = "none"
    /\ handlers' = [handlers EXCEPT ![h] =
           [st |-> "iter", used |-> Len(rvValues), pos |-> 1, sid |-> 0,
            data |-> 0, response |-> <<>>]]
    /\ UNCHANGED <<rvValues, rvSensors, rvReady, rvServer, rvServing, rvBound, rvBindAttempts,
                   rvBinds, rvRaised, rvPc, rvArg, rvCalls, rvLast, rvPrev, rvPort,
                   mqttVars, fileVars>>

\* The for statement asks the dict iterator for the next item: RuntimeError if
\* the dict changed size, the response is sent if the items are exhausted.
HandlerNext(h) ==
    /\ handlers[h].st = "iter"
    /\ LET hd == handlers[h]
       IN  handlers' = [handlers EXCEPT ![h] =
               IF Len(rvValues) # hd.used
               THEN [hd EXCEPT !.st = "crashed"]
               ELSE IF hd.pos > Len(rvValues)
               THEN [hd EXCEPT !.st = "sent"]
               ELSE [hd EXCEPT !.st = "item", !.sid = rvValues[hd.pos].k,
                               !.data = rvValues[hd.pos].v, !.pos = hd.pos + 1]]
    /\ UNCHANGED <<rvValues, rvSensors, rvReady, rvServer, rvServing, rvBound, rvBindAttempts,
                   rvBinds, rvRaised, rvPc, rvArg, rvCalls, rvLast, rvPrev, rvPort,
                   mqttVars, fileVars>>

\* The loop body: sensor = sensors[sid] (KeyError if missing), then the line.
HandlerLine(h) ==
    /\ handlers[h].st = "item"
    /\ LET hd == handlers[h]
       IN  handlers' = [handlers EXCEPT ![h] =
               IF ~DictHas(rvSensors, hd.sid)
               THEN [hd EXCEPT !.st = "crashed"]
               ELSE [hd EXCEPT !.st = "iter",
                               !.response = Append(hd.response,
                                   Line(SensorOf(DictGet(rvSensors, hd.sid)), hd.data))]]
    /\ UNCHANGED <<rvValues, rvSensors, rvReady, rvServer, rvServing, rvBound, rvBindAttempts,
                   rvBinds, rvRaised, rvPc, rvArg, rvCalls, rvLast, rvPrev, rvPort,
                   mqttVars, fileVars>>

\* No RecentValuesListener exists (SpecMQTT).
RVInitIdle ==
    /\ rvValues = <<>>
    /\ rvSensors = <<>>
    /\ rvReady = FALSE
    /\ rvServer = "None"
    /\ rvServing = FALSE
    /\ rvBound = FALSE
    /\ rvPort = DefaultPort
    /\ rvBindAttempts = 0
    /\ rvBinds = 0
    /\ rvRaised = FALSE
    /\ rvPc = "idle"
    /\ rvArg = <<0, 0>>
    /\ rvCalls = 0
    /\ rvLast = [i \in SensorIds |-> 0]
    /\ rvPrev = NotRepeated
    /\ handlers = [h \in 1 .. MaxConnections |-> NoHandler]

\* After RecentValuesListener.__init__: openListeningPort() ran once, then
\* self.server was set to None. The server was not created ("none"), or was
\* created and its thread did not start ("bound": the server, dropped by the
\* assignment of None, is collected and its socket closed), or serves
\* ("serving": the thread keeps the server alive).
RVInit ==
    /\ rvValues = <<>>
    /\ rvSensors = <<>>
    /\ \E outcome \in {"none", "bound", "serving"} :
         /\ rvServing = (outcome = "serving")
         /\ rvBound = (outcome = "serving")
         /\ rvReady = (outcome = "serving")
         /\ rvBinds = (IF outcome = "none" THEN 0 ELSE 1)
    /\ rvServer = "None"
    /\ rvPort \in {0, DefaultPort}
    /\ rvBindAttempts = 1
    /\ rvRaised = FALSE
    /\ rvPc = "idle"
    /\ rvArg = <<0, 0>>
    /\ rvCalls = 0
    /\ rvLast = [i \in SensorIds |-> 0]
    /\ rvPrev = NotRepeated
    /\ handlers = [h \in 1 .. MaxConnections |-> NoHandler]

----------------------------------------------------------------------------
(* FileOutListener *)

\* The line written for one reading:
\* "%d,%d,%f %s,%d,%s,%s,%s\n" % (displayid, rawvalue, cooked, unit,
\*                                timestamp, signaltext, name, type)
FileLine(sensor, data) ==
    [ displayid |-> sensor.displayid,
      rawvalue |-> data.rawvalue,
      cooked |-> [fmt |-> "%f", cooked |-> <<sensor.id, data.rawvalue>>],
      unit |-> sensor.unit,
      timestamp |-> data.timestamp,
      signaltext |-> IF data.signal = None THEN "-" ELSE Str(data.signal),
      name |-> sensor.name,
      type |-> sensor.type ]

\* openLogfile: open() either returns (status "ready") or raises (status
\* "error", the error is logged).
openLogfile(openOk) ==
    [ status |-> IF openOk THEN "ready" ELSE "error", logged |-> ~openOk ]

\* if self.status != "ready": self.openLogfile()
NeedsOpen(status) == status # "ready"

\* if self.status == "ready": ... self.fd.write(...)
MayWrite(status) == status = "ready"

\* What a call did: the status it found, its open() ("none" if not called),
\* its write() ("none" if not called), and whether it logged an error.
Did(pre, open, write, logged) ==
    [pre |-> pre, open |-> open, write |-> write, logged |-> logged]

\* FileOutListener.onNewData. The write is not inside a try block: a write
\* that raises leaves onNewData with the exception, status untouched.
FileonNewData ==
    /\ fileCalls < MaxFileCalls
    /\ \E i \in SensorIds : \E data \in Readings(i, fileCalls + 1, FALSE) :
       \E openOk \in BOOLEAN : \E writeOk \in BOOLEAN :
         LET reopen == NeedsOpen(fileStatus)
             opened == openLogfile(openOk)
             status == IF reopen THEN opened.status ELSE fileStatus
             write  == MayWrite(status)
         IN  /\ ~reopen => openOk
             /\ ~write => writeOk
             /\ fileStatus' = status
             /\ fileWritten' = IF write /\ writeOk
                               THEN Append(fileWritten, FileLine(SensorOf(i), data))
                               ELSE fileWritten
             /\ fileRaised' = (write /\ ~writeOk)
             /\ fileLast' = Did(fileStatus,
                                IF ~reopen THEN "none" ELSE IF openOk THEN "ok" ELSE "failed",
                                IF ~write THEN "none" ELSE IF writeOk THEN "ok" ELSE "failed",
                                reopen /\ opened.logged)
    /\ fileCalls' = fileCalls + 1
    /\ UNCHANGED <<mqttVars, rvVars>>

\* After FileOutListener.__init__: status "not initialized", then
\* openLogfile() ran once.
FileInit ==
    /\ \E openOk \in BOOLEAN :
         /\ fileStatus = openLogfile(openOk).status
         /\ fileLast = Did("not initialized", IF openOk THEN "ok" ELSE "failed",
                           "none", openLogfile(openOk).logged)
    /\ fileWritten = <<>>
    /\ fileRaised = FALSE
    /\ fileCalls = 0

\* No FileOutListener exists (SpecMQTT, SpecRV).
FileInitIdle ==
    /\ fileStatus = "not initialized"
    /\ fileLast = Did("not initialized", "none", "none", FALSE)
    /\ fileWritten = <<>>
    /\ fileRaised = FALSE
    /\ fileCalls = 0

----------------------------------------------------------------------------
(* Specifications *)

\* After MQTTListener.__init__: connect() was called once and either
\* returned (ready) or raised (not ready).
MQTTInit ==
    /\ payload_format \in {"homie", "home-assistant", "absent", "other"}
    /\ dataHasSensor \in BOOLEAN
    /\ mqttConnected \in BOOLEAN
    /\ mqttReady = ConnectReady(mqttConnected)
    /\ mqttAcked = FALSE
    /\ mqttValues = <<>>
    /\ published = <<>>
    /\ mqttDelivered = <<>>
    /\ mqttConnects = 1
    /\ mqttRaised = FALSE
    /\ mqttFailures = 0

InitMQTT == MQTTInit /\ RVInitIdle /\ FileInitIdle

NextMQTT == MQTTonNewData

SpecMQTT == InitMQTT /\ [][NextMQTT]_vars

\* The listener together with the client's loop thread.
NextMQTTConn ==
    \/ MQTTonNewData
    \/ MQTTon_connect

SpecMQTTConn == InitMQTT /\ [][NextMQTTConn]_vars

\* No MQTTListener exists (SpecRV).
MQTTInitIdle ==
    /\ payload_format = "absent"
    /\ dataHasSensor = FALSE
    /\ mqttReady = FALSE
    /\ mqttConnected = FALSE
    /\ mqttAcked = FALSE
    /\ mqttValues = <<>>
    /\ published = <<>>
    /\ mqttDelivered = <<>>
    /\ mqttConnects = 0
    /\ mqttRaised = FALSE
    /\ mqttFailures = 0

InitRV == RVInit /\ MQTTInitIdle /\ FileInitIdle

NextRV ==
    \/ RVStoreValue
    \/ RVStoreSensor
    \/ RVReturn
    \/ RVBindOk
    \/ RVBindFail
    \/ RVStartOk
    \/ RVStartFail
    \/ RVSetReady
    \/ \E h \in 1 .. MaxConnections : HandlerSetup(h)
    \/ \E h \in 1 .. MaxConnections : HandlerNext(h)
    \/ \E h \in 1 .. MaxConnections : HandlerLine(h)

SpecRV == InitRV /\ [][NextRV]_vars

InitFile == FileInit /\ MQTTInitIdle /\ RVInitIdle

NextFile == FileonNewData

SpecFile == InitFile /\ [][NextFile]_vars

----------------------------------------------------------------------------
(* Properties of MQTTListener (SpecMQTT) *)

Log == DOMAIN published

Range(q) == {q[i] : i \in DOMAIN q}

IsHAConfig(e) == e.topic.conv = "home-assistant" /\ e.topic.leaf = "config"
IsHAState(e) == e.topic.conv = "home-assistant" /\ e.topic.leaf = "state"
IsDeviceLevel(e) == e.topic.conv = "homie" /\ e.topic.node = 0
IsNodes(e) == IsDeviceLevel(e) /\ e.topic.leaf = "$nodes"
IsHomieValue(e) == e.topic.conv = "homie" /\ e.topic.leaf = "value"

\* e is (part of) the discovery payload of the sensor with displayid sid:
\* its config payload, or device metadata published for its first reading.
IsDiscoveryOf(e, sid) ==
    \/ IsHAConfig(e) /\ e.topic.node = sid
    \/ IsDeviceLevel(e) /\ e.by = sid

\* The sensor of onNewData call n, and whether that call is the first for it.
DeliveredSensor(n) == SensorOf(mqttDelivered[n][1])
FirstDelivery(n) == \A m \in 1 .. n - 1 : mqttDelivered[m][1] # mqttDelivered[n][1]

\* C1: the discovery payload of a sensor is published at most once: at most
\* one config payload per sensor under home-assistant, and at most one
\* onNewData call per sensor that publishes device metadata under homie.
C1_DiscoveryAtMostOnce ==
    \A i \in SensorIds :
        /\ Cardinality({j \in Log : /\ IsHAConfig(published[j])
                                    /\ published[j].ok
                                    /\ published[j].topic.node = SensorOf(i).displayid}) <= 1
        /\ Cardinality({published[j].n : j \in
                           {j \in Log : /\ IsDeviceLevel(published[j])
                                        /\ published[j].by = SensorOf(i).displayid}}) <= 1

\* C2: every state/value payload published for a sensor comes after a
\* published discovery payload of that sensor (its config payload, or device
\* metadata published for it or listing it).
C2_StateAfterDiscovery ==
    \A j \in Log :
        (published[j].ok /\ (IsHAState(published[j]) \/ IsHomieValue(published[j])))
        => \E k \in 1 .. j - 1 :
              /\ published[k].ok
              /\ \/ IsDiscoveryOf(published[k], published[j].topic.node)
                 \/ /\ IsNodes(published[k])
                    /\ published[j].topic.node \in Range(published[k].payload)

\* C3 as stated: device metadata is published only for the first sensor ever
\* delivered, so no $nodes payload lists a sensor first seen later.
C3_DeviceMetadataOnlyForFirstSensor ==
    \A j \in Log :
        IsDeviceLevel(published[j])
        => /\ published[j].by = DeliveredSensor(1).displayid
           /\ IsNodes(published[j])
              => Range(published[j].payload) = {DeliveredSensor(1).displayid}

\* C3 as amended: under homie with the session ready, an onNewData call
\* publishes device metadata exactly when it is the first call for its
\* sensor ($homie first), whichever sensor that is, and every $nodes payload
\* lists the sensor whose first reading caused it.
C3_DeviceMetadataForEveryNewSensor ==
    /\ \A n \in DOMAIN mqttDelivered :
          (PayloadFormat(payload_format) = "homie" /\ mqttReady)
          => /\ FirstDelivery(n)
                <=> \E j \in Log : published[j].n = n /\ IsDeviceLevel(published[j])
             /\ FirstDelivery(n)
                => \E j \in Log :
                      /\ published[j].n = n
                      /\ published[j].topic.leaf = "$homie"
                      /\ \A k \in 1 .. j - 1 : published[k].n # n
    /\ \A j \in Log :
          IsNodes(published[j]) => published[j].by \in Range(published[j].payload)

\* C3 witness: a second sensor's first reading published $nodes again, with
\* both sensors listed.
C3_Witness ==
    \E j \in Log : \E k \in Log :
        /\ j < k
        /\ IsNodes(published[j]) /\ published[j].ok
        /\ IsNodes(published[k]) /\ published[k].ok
        /\ published[j].by # published[k].by
        /\ Range(published[k].payload) = {published[j].by, published[k].by}

\* C4: every $nodes payload lists exactly the sensors recorded by then (those
\* of the onNewData calls made so far, the current one included), each once.
C4_NodesListsRecordedSensors ==
    \A j \in Log :
        IsNodes(published[j])
        => /\ Range(published[j].payload)
                = {DeliveredSensor(m).displayid : m \in 1 .. published[j].n}
           /\ \A a \in DOMAIN published[j].payload :
              \A b \in DOMAIN published[j].payload :
                 a # b => published[j].payload[a] # published[j].payload[b]

\* C4 witness: a $nodes payload listing two recorded sensors was published.
C4_Witness ==
    \E j \in Log :
        /\ IsNodes(published[j])
        /\ published[j].ok
        /\ Len(published[j].payload) = 2
        /\ published[j].n = 2

\* C7: under home-assistant the key of every state payload is the token the
\* sensor's config payload gives as device_class and in value_template.
C7_StateKeyIsNormalizedType ==
    \A j \in Log : \A k \in Log :
        ( /\ IsHAState(published[j])
          /\ IsHAConfig(published[k])
          /\ published[j].topic.node = published[k].topic.node )
        => /\ published[j].payload.key = published[k].payload.device_class
           /\ published[j].payload.key = published[k].payload.value_template.value_json

\* C8: when the connect of the constructor failed, ready stays false, and no
\* onNewData call publishes, connects again, or raises.
C8_NotReadyNeverPublishes ==
    [][ ~mqttReady
        => /\ ~mqttReady'
           /\ published' = published
           /\ mqttConnects' = mqttConnects
           /\ ~mqttRaised' ]_vars

\* C8 witness: two readings were delivered to a listener whose connect
\* failed, under homie (they were recorded) and nothing was published.
C8_Witness ==
    /\ ~mqttReady
    /\ Len(mqttDelivered) >= 2
    /\ Len(mqttValues) >= 1
    /\ published = <<>>
    /\ mqttConnects = 1

\* C10: after a publish call of a sensor's discovery payload has failed, no
\* later onNewData call issues a discovery payload for that sensor.
C10_NoDiscoveryAfterFailedDiscovery ==
    \A j \in Log : \A k \in Log :
        \A i \in SensorIds :
            ( /\ ~published[j].ok
              /\ IsDiscoveryOf(published[j], SensorOf(i).displayid)
              /\ published[k].n > published[j].n )
            => ~IsDiscoveryOf(published[k], SensorOf(i).displayid)

----------------------------------------------------------------------------
(* More properties of MQTTListener (SpecMQTT) *)

\* The publish calls issued by onNewData call n.
CallsOf(n) == {j \in Log : published[j].n = n}

HomeAssistantReady ==
    PayloadFormat(payload_format) = "home-assistant" /\ mqttReady

\* C12 as stated: under home-assistant with the session ready, every
\* onNewData call issues exactly one state publish, not retained, on the
\* state topic of its sensor, after the retained config publish if there is one.
C12_ExactlyOneStatePerReading ==
    HomeAssistantReady
    => \A n \in DOMAIN mqttDelivered :
          /\ Cardinality({j \in CallsOf(n) : IsHAState(published[j])}) = 1
          /\ \A j \in CallsOf(n) :
                IsHAState(published[j])
                => /\ ~published[j].retain
                   /\ published[j].topic.node = DeliveredSensor(n).displayid
                   /\ \A k \in CallsOf(n) :
                         IsHAConfig(published[k]) => k < j /\ published[k].retain

\* C12 as amended: the same, except that a call whose config publish raises
\* issues no state publish; the first call for a sensor issues the config
\* publish.
C12_OneStateUnlessConfigRaises ==
    HomeAssistantReady
    => \A n \in DOMAIN mqttDelivered :
          /\ Cardinality({j \in CallsOf(n) : IsHAState(published[j])})
                = (IF \E k \in CallsOf(n) : IsHAConfig(published[k]) /\ ~published[k].ok
                   THEN 0 ELSE 1)
          /\ FirstDelivery(n) => \E k \in CallsOf(n) : IsHAConfig(published[k])
          /\ \A j \in CallsOf(n) :
                IsHAState(published[j])
                => /\ ~published[j].retain
                   /\ published[j].topic.node = DeliveredSensor(n).displayid
                   /\ \A k \in CallsOf(n) :
                         IsHAConfig(published[k]) => k < j /\ published[k].retain

\* C12 witness: a reading whose config publish raised issued no state
\* publish, and the next reading issued its state publish.
C12_Witness ==
    /\ HomeAssistantReady
    /\ Len(mqttDelivered) = 2
    /\ \E k \in CallsOf(1) : IsHAConfig(published[k]) /\ ~published[k].ok
    /\ ~\E j \in CallsOf(1) : IsHAState(published[j])
    /\ \E j \in CallsOf(2) : IsHAState(published[j]) /\ published[j].ok

\* C16: all publish calls are under the one convention payload_format
\* selects: homie topics for "homie", home-assistant topics for
\* "home-assistant" or no payload_format; with any other value onNewData
\* publishes nothing and changes nothing.
C16_OneConventionPerFormat ==
    /\ payload_format = "homie"
       => \A j \in Log : published[j].topic.conv = "homie"
    /\ payload_format \in {"home-assistant", "absent"}
       => \A j \in Log : published[j].topic.conv = "home-assistant"
    /\ payload_format \notin {"homie", "home-assistant", "absent"}
       => /\ published = <<>>
          /\ mqttValues = <<>>
          /\ mqttReady = mqttConnected
          /\ mqttConnects = 1
          /\ ~mqttRaised

\* C16 witness: without a payload_format, two readings were published, on
\* home-assistant topics.
C16_Witness ==
    /\ payload_format = "absent"
    /\ Len(mqttDelivered) = 2
    /\ \E j \in CallsOf(1) : published[j].ok /\ published[j].topic.conv = "home-assistant"
    /\ \E j \in CallsOf(2) : published[j].ok /\ published[j].topic.conv = "home-assistant"

\* C17: no onNewData call lets an exception escape, and a publish call that
\* raised is the last one its onNewData call issued.
C17_PublishFailureContained ==
    /\ ~mqttRaised
    /\ \A j \in Log :
          ~published[j].ok
          => \A k \in Log : k > j => published[k].n # published[j].n

\* C17 witness: the first publish of the first reading raised, nothing else
\* was published for that reading, and the next reading was published.
C17_Witness ==
    /\ Len(mqttDelivered) = 2
    /\ ~mqttRaised
    /\ CallsOf(1) = {1}
    /\ ~published[1].ok
    /\ published[1].topic.leaf = "$homie"
    /\ \E k \in CallsOf(2) : published[k].ok

\* The latest onNewData call up to call n made for the sensor with index i.
LatestFor(i, n) ==
    CHOOSE m \in 1 .. n :
        /\ mqttDelivered[m][1] = i
        /\ \A m2 \in m + 1 .. n : mqttDelivered[m2][1] # i

PerSensor(e) == e.topic.conv = "homie" /\ e.topic.node # 0

\* C19 as stated: under homie, every per-sensor message an onNewData call
\* publishes is on a topic of the sensor the call is for, and every value
\* payload is computed from the reading of that call.
C19_OnlyDeliveredSensor ==
    \A j \in Log :
        PerSensor(published[j])
        => /\ published[j].topic.node = published[j].by
           /\ IsHomieValue(published[j])
              => published[j].payload
                    = Fmt2(DeliveredSensor(published[j].n).id,
                           mqttDelivered[published[j].n][2].rawvalue)

\* C19 as amended: that holds for calls made for a sensor recorded before.
\* The first call for a sensor publishes per-sensor messages of the sensors
\* recorded so far, each value computed from the reading stored for its
\* sensor; it publishes a value for every one of them if the readings carry
\* their sensor, the session is ready and no publish raises.
C19_OwnSensorUnlessNew ==
    /\ \A j \in Log :
          PerSensor(published[j])
          => LET n == published[j].n
             IN  /\ ~FirstDelivery(n) => published[j].topic.node = published[j].by
                 /\ \E i \in SensorIds :
                       /\ SensorOf(i).displayid = published[j].topic.node
                       /\ \E m \in 1 .. n : mqttDelivered[m][1] = i
                       /\ IsHomieValue(published[j])
                          => published[j].payload
                                = Fmt2(SensorOf(i).id,
                                       mqttDelivered[LatestFor(i, n)][2].rawvalue)
    /\ \A n \in DOMAIN mqttDelivered :
          ( /\ PayloadFormat(payload_format) = "homie"
            /\ mqttReady
            /\ dataHasSensor
            /\ FirstDelivery(n)
            /\ \A j \in CallsOf(n) : published[j].ok )
          => \A i \in SensorIds :
                (\E m \in 1 .. n : mqttDelivered[m][1] = i)
                => \E j \in CallsOf(n) :
                      /\ IsHomieValue(published[j])
                      /\ published[j].topic.node = SensorOf(i).displayid

\* C19 witness: the first reading of a second sensor re-published the value
\* of the sensor recorded before it, and the next reading, for the sensor
\* recorded first, published seven messages, all on that sensor's topics,
\* the value computed from that reading.
C19_Witness ==
    /\ Len(mqttDelivered) = 3
    /\ mqttDelivered[3][1] = mqttDelivered[1][1]
    /\ mqttDelivered[2][1] # mqttDelivered[1][1]
    /\ Len(mqttValues) = 2
    /\ \E j \in CallsOf(2) :
          /\ IsHomieValue(published[j])
          /\ published[j].ok
          /\ published[j].topic.node # published[j].by
          /\ published[j].payload
                = Fmt2(mqttDelivered[1][1], mqttDelivered[1][2].rawvalue)
    /\ Cardinality(CallsOf(3)) = 7
    /\ \A j \in CallsOf(3) :
          /\ published[j].ok
          /\ published[j].topic.node = DeliveredSensor(3).displayid
    /\ \E j \in CallsOf(3) :
          /\ IsHomieValue(published[j])
          /\ published[j].payload
                = Fmt2(DeliveredSensor(3).id, mqttDelivered[3][2].rawvalue)

----------------------------------------------------------------------------
(* Properties of RecentValuesListener (SpecRV) *)

\* The cache entry of the onNewData call under way is in place.
Upserted ==
    /\ DictHas(rvValues, SensorOf(rvArg[1]).id)
    /\ DictGet(rvValues, SensorOf(rvArg[1]).id) = rvArg[2]
    /\ DictHas(rvSensors, SensorOf(rvArg[1]).id)

\* C5: the cache holds at most one entry per sensor id, the entry of a sensor
\* is the reading most recently delivered for it, and whenever a handler
\* takes a sensor's entry to render its line, it takes the reading most
\* recently delivered for that sensor, and the line is built from it.
C5_LastWriteWins ==
    /\ [](\A a \in DOMAIN rvValues : \A b \in DOMAIN rvValues :
             a # b => rvValues[a].k # rvValues[b].k)
    /\ [](\A i \in SensorIds :
             DictHas(rvValues, i) => DictGet(rvValues, i) = rvLast[i])
    /\ [][ \A h \in DOMAIN handlers :
             (handlers[h].st = "iter" /\ handlers'[h].st = "item")
             => handlers'[h].data = rvLast[handlers'[h].sid] ]_vars
    /\ [][ \A h \in DOMAIN handlers :
             (handlers[h].st = "item" /\ handlers'[h].st = "iter")
             => LET line == handlers'[h].response[Len(handlers'[h].response)]
                IN  /\ line.id = handlers[h].sid
                    /\ line.timestamp = handlers[h].data.timestamp
                    /\ line.cooked.cooked[2] = handlers[h].data.rawvalue ]_vars

\* C5 witness: a sensor got two readings and a response sent afterwards
\* holds its line, built from the second one.
C5_Witness ==
    \E h \in DOMAIN handlers : \E i \in SensorIds :
        /\ handlers[h].st = "sent"
        /\ Len(handlers[h].response) = 1
        /\ handlers[h].response[1].id = i
        /\ handlers[h].response[1].timestamp = 2
        /\ rvCalls = 2
        /\ Len(rvValues) = 1
        /\ rvLast[i].timestamp = 2

\* C6: the cache update of onNewData and the rendering of a snapshot exclude
\* each other: no handler renders while an update is half done.
C6_MutualExclusion ==
    ~(rvPc = "sensors" /\ \E h \in DOMAIN handlers : Rendering(h))

\* C9: a failed bind does not escape onNewData; every onNewData call upserts
\* its cache entry and then makes exactly one bind attempt if ready is false
\* and none if it is true; nothing else attempts to bind; ready, once true,
\* stays true; the socket is bound at most once, and once it is bound, ready
\* is true when the call returns.
C9_LazyBindRetry ==
    /\ [](~rvRaised)
    /\ [][ rvBindAttempts' # rvBindAttempts
           => /\ rvPc = "bind"
              /\ ~rvReady
              /\ Upserted
              /\ rvBindAttempts' = rvBindAttempts + 1 ]_vars
    /\ [][ (rvPc = "bind" /\ rvPc' # "bind")
           => rvBindAttempts' = rvBindAttempts + (IF rvReady THEN 0 ELSE 1) ]_vars
    /\ [][ rvReady => rvReady' ]_vars
    /\ [](rvBinds <= 1)
    /\ []((rvPc = "idle" /\ rvBinds >= 1) => rvReady)

\* The response a handler would send for a cache.
Snapshot(values, sensors) ==
    [i \in 1 .. Len(values) |->
        Line(SensorOf(DictGet(sensors, values[i].k)), values[i].v)]

\* C13: an onNewData call that repeats the arguments of the call before it
\* leaves the cache as that call left it: same keys in the same order, same
\* reading and descriptor per key, same rendered snapshot.
C13_Idempotent ==
    (rvPrev.same /\ rvPc = "idle")
    => /\ rvValues = rvPrev.values
       /\ rvSensors = rvPrev.sensors
       /\ Snapshot(rvValues, rvSensors) = Snapshot(rvPrev.values, rvPrev.sensors)

\* C13 witness: two sensors are cached, the third call repeated the second
\* one, which was for the sensor cached last, and has returned.
C13_Witness ==
    /\ rvPrev.same
    /\ rvPc = "idle"
    /\ rvCalls = 3
    /\ rvArg[2].timestamp = 2
    /\ Len(rvValues) = 2
    /\ Len(rvSensors) = 2
    /\ rvValues[2].k = SensorOf(rvArg[1]).id
    /\ rvValues[1].v.timestamp = 1

\* C14: every handler sends its response: none ends without one, and a
\* response sent has one line per sensor id of the cache, with "-" as the
\* signal field exactly when the reading has no signal.
C14_OneResponsePerConnection ==
    \A h \in DOMAIN handlers :
        /\ handlers[h].st # "crashed"
        /\ handlers[h].st = "sent"
           => /\ Len(handlers[h].response) = handlers[h].used
              /\ \A a \in DOMAIN handlers[h].response :
                 \A b \in DOMAIN handlers[h].response :
                    a # b => handlers[h].response[a].id # handlers[h].response[b].id
              /\ \A a \in DOMAIN handlers[h].response :
                    handlers[h].response[a].signaltext \in {"-", "7"}

\* C18: while the socket is served, every sensor id that has a reading has a
\* descriptor, and no handler fails at the descriptor lookup.
C18_DescriptorForEveryReading ==
    /\ rvServing
       => \A i \in SensorIds :
             DictHas(rvValues, SensorOf(i).id) => DictHas(rvSensors, SensorOf(i).id)
    /\ \A h \in DOMAIN handlers :
          handlers[h].st = "crashed" => DictHas(rvSensors, handlers[h].sid)

\* C20: whenever ready is true, self.server is the bound server.
C20_ReadyImpliesServer ==
    rvReady => rvServer # "None"

----------------------------------------------------------------------------
(* Properties of FileOutListener (SpecFile) *)

\* C15: an open or a write that fails is logged and leaves status other than
\* "ready"; a call that finds status other than "ready" opens the file, and
\* writes if the open succeeded; a call that ends not ready attempted no write.
C15_FailureMarksNotReady ==
    /\ fileLast.open = "failed" => (fileStatus # "ready" /\ fileLast.logged)
    /\ fileLast.write = "failed" => (fileStatus # "ready" /\ fileLast.logged)
    /\ (fileCalls > 0 /\ fileLast.pre # "ready") => fileLast.open # "none"
    /\ (fileCalls > 0 /\ fileLast.open = "ok") => fileLast.write # "none"
    /\ (fileCalls > 0 /\ fileStatus # "ready") => fileLast.write = "none"

----------------------------------------------------------------------------
(* Properties of the MQTT connection (SpecMQTTConn) *)

\* C11 as stated: ready is false until the broker's acknowledgment has been
\* received, so nothing is published before it.
C11_ReadyOnlyAfterAck ==
    /\ mqttReady => mqttAcked
    /\ published # <<>> => mqttAcked

\* C11 as amended: ready is true from the constructor on exactly when
\* connect() returned without raising, and nothing changes it afterwards,
\* on_connect included; every publish is issued with ready true.
C11_ReadyFromConnect ==
    /\ [](mqttReady <=> mqttConnected)
    /\ [][mqttReady' = mqttReady]_vars
    /\ [][published' # published => mqttReady]_vars

\* C11 witness: a publish was issued before the acknowledgment arrived.
C11_Witness ==
    /\ mqttReady
    /\ ~mqttAcked
    /\ \E j \in Log : published[j].ok

=============================================================================
